---- MODULE Spec2Model ----
(***************************************************************************)
(* The OOMMF package recipe (var/spack/repos/builtin/packages/oommf):      *)
(* source layout detection, the configure / build / install phases, the    *)
(* post-install checks, setup_environment and the on-demand test method.   *)
(*                                                                         *)
(* A path is a sequence of path components; the file system is a function  *)
(* from the paths that exist to their contents. External programs (the     *)
(* pimake build driver, tclsh) are the environment: their exit status and  *)
(* captured output are inputs of the action that calls them.               *)
(***************************************************************************)
EXTENDS Integers, Sequences, FiniteSets, TLC

VARIABLES
    fs,          \* the file system: path -> content
    cwd,         \* the process's current working directory
    source_root, \* what get_oommf_source_root returned to configure
    prefix,      \* the install prefix assigned by the package manager
    pc,          \* the step of the install attempt that runs next
    error,       \* the exception that ended the install attempt, if any
    log,         \* the operations carried out so far, in order
    hooks,       \* outcome of each post-install callback
    call,        \* the last tclsh invocation made by a post-install check
    run_env,     \* run-time environment modifications
    spack_env,   \* build-time environment modifications
    tests        \* what the last run of test() recorded per check

vars == <<fs, cwd, source_root, prefix, pc, error, log, hooks, call, run_env, spack_env, tests>>

----------------------------------------------------------------------------
(* Bounds of the model *)

NumPrefixes == 2

PrefixNames == <<"p1", "p2", "p3", "p4">>

Prefixes == {<<"opt", PrefixNames[i]>> : i \in 1..NumPrefixes}

StageDir == <<"stage">>

ExitStatuses == {0, 1}

----------------------------------------------------------------------------
(* Paths and the file system *)

Marker == "oommf.tcl"

FileNames == {"oommf.tcl", "stdprob3.mif"}

Dir == <<"dir">>

join_path(a, b) == a \o b

IsPrefixOf(d, p) == Len(d) <= Len(p) /\ SubSeq(p, 1, Len(d)) = d

Ancestors(p) == {SubSeq(p, 1, n) : n \in 1..Len(p)}

exists(f, p) == p \in DOMAIN f

isdir(f, p) == p \in DOMAIN f /\ f[p] = Dir

isfile(f, p) == p \in DOMAIN f /\ f[p] # Dir

listdir(f, d) ==
    {p[Len(d) + 1] : p \in {q \in DOMAIN f : Len(q) = Len(d) + 1 /\ IsPrefixOf(d, q)}}

mkdirp(f, d) ==
    [p \in DOMAIN f \cup Ancestors(d) |-> IF p \in DOMAIN f THEN f[p] ELSE Dir]

\* the paths below directory d, relative to d
TreeOf(f, d) ==
    {SubSeq(p, Len(d) + 1, Len(p)) : p \in {q \in DOMAIN f : Len(q) > Len(d) /\ IsPrefixOf(d, q)}}

install_tree(f, src, dst) ==
    LET g == mkdirp(f, dst)
        new == {join_path(dst, r) : r \in TreeOf(f, src)}
    IN  [p \in DOMAIN g \cup new |->
            IF p \in new
            THEN f[join_path(src, SubSeq(p, Len(dst) + 1, Len(p)))]
            ELSE g[p]]

install_file(f, src, dstdir) ==
    LET dst == join_path(dstdir, <<src[Len(src)]>>)
    IN  [p \in DOMAIN f \cup {dst} |-> IF p = dst THEN f[src] ELSE f[p]]

remove(f, p) == [q \in DOMAIN f \ {p} |-> f[q]]

----------------------------------------------------------------------------
(* The extracted source trees the recipe may be given *)

AppContents ==
    { {},
      {<<"app">>, <<"app", "oxs">>, <<"app", "oxs", "examples">>,
       <<"app", "oxs", "examples", "stdprob3.mif">>},
      {<<"app">>, <<"app", "oxs">>, <<"app", "oxs", "examples">>,
       <<"app", "oxs", "examples", "stdprob3.mif">>, <<"app", "oxs", "eamples">>} }

NestedOptions == {"absent", "empty", "marker"}

SourceTree(rootMarker, nested, contents) ==
    (IF rootMarker THEN {<<Marker>>} \cup contents ELSE {})
    \cup (IF nested # "absent" THEN {<<"oommf">>} ELSE {})
    \cup (IF nested = "marker"
          THEN {<<"oommf", Marker>>} \cup {join_path(<<"oommf">>, c) : c \in contents}
          ELSE {})

InitialFS(tree, pfx) ==
    LET staged == {join_path(StageDir, r) : r \in tree}
        dirs == Ancestors(StageDir) \cup Ancestors(pfx)
    IN  [p \in staged \cup dirs |->
            IF p \in staged /\ p[Len(p)] \in FileNames THEN <<"file">> \o p ELSE Dir]

----------------------------------------------------------------------------
(* Exceptions *)

NoError == [type |-> "none", arg |-> <<>>]

Raise(t, a) == [type |-> t, arg |-> a]

Entry(op, dir, ok) == [op |-> op, dir |-> dir, ok |-> ok]

----------------------------------------------------------------------------
(* Oommf.get_oommf_source_root *)

\* variant: the nested location is probed before the current directory
get_oommf_source_root_nested_first(f, wd) ==
    IF isdir(f, join_path(wd, <<"oommf">>)) /\ Marker \in listdir(f, join_path(wd, <<"oommf">>))
    THEN [error |-> NoError, value |-> "oommf"]
    ELSE IF Marker \in listdir(f, wd)
    THEN [error |-> NoError, value |-> "."]
    ELSE [error |-> Raise("ValueError", wd), value |-> ""]

get_oommf_source_root(f, wd) ==
    IF Marker \in listdir(f, wd)
    THEN [error |-> NoError, value |-> "."]
    ELSE IF ~isdir(f, join_path(wd, <<"oommf">>))
    THEN [error |-> Raise("FileNotFoundError", <<"oommf">>), value |-> ""]
    ELSE IF Marker \in listdir(f, join_path(wd, <<"oommf">>))
    THEN [error |-> NoError, value |-> "oommf"]
    ELSE [error |-> Raise("ValueError", wd), value |-> ""]

chdir(wd, rel) == IF rel = "." THEN wd ELSE join_path(wd, <<rel>>)

(* Oommf.get_oommf_path *)

\* variant: the installation is placed below <prefix>/bin
get_oommf_path_bin(pfx) == join_path(join_path(pfx, <<"bin">>), <<"oommf">>)

get_oommf_path(pfx) == join_path(join_path(pfx, <<"usr", "bin">>), <<"oommf">>)

----------------------------------------------------------------------------
(* The install pipeline: the phases of the recipe, then the callbacks *)
(* registered to run after the install phase, in this order.          *)

phases == <<"configure", "build", "install">>

callbacks == <<"sanity_check_prefix", "check_install_version",
               "check_install_platform", "check_install_stdprob3">>

Steps == phases \o callbacks

After(step) ==
    LET i == CHOOSE k \in 1..Len(Steps) : Steps[k] = step
    IN  IF i = Len(Steps) THEN "done" ELSE Steps[i + 1]

\* An external command succeeds when its exit status is zero; otherwise the
\* call raises ProcessError.
ProcessOk(status) == status = 0

\* variant: a failing command does not stop the commands after it
RECURSIVE RunAll_keep_going(_, _, _)
RunAll_keep_going(cmds, statuses, wd) ==
    IF cmds = <<>>
    THEN <<>>
    ELSE <<Entry(cmds[1], wd, ProcessOk(statuses[1]))>>
         \o RunAll_keep_going(Tail(cmds), Tail(statuses), wd)

\* Consecutive Executable calls in working directory wd: the first one that
\* raises ends the sequence.
RECURSIVE RunAll(_, _, _)
RunAll(cmds, statuses, wd) ==
    IF cmds = <<>>
    THEN <<>>
    ELSE LET ok == ProcessOk(statuses[1])
         IN  <<Entry(cmds[1], wd, ok)>>
             \o (IF ok THEN RunAll(Tail(cmds), Tail(statuses), wd) ELSE <<>>)

AllOk(entries) == \A i \in 1..Len(entries) : entries[i].ok

----------------------------------------------------------------------------
(* Oommf.configure *)

\* variant: the two commands in the other order
configure_commands_swapped == <<"pimake upgrade", "pimake distclean">>

configure_commands == <<"pimake distclean", "pimake upgrade">>

configure ==
    /\ pc = "configure"
    /\ LET r == get_oommf_source_root(fs, cwd)
       IN  IF r.error # NoError
           THEN /\ log' = log \o <<Entry("phase configure", cwd, TRUE),
                                   Entry("get_oommf_source_root", cwd, FALSE)>>
                /\ error' = r.error
                /\ pc' = "failed"
                /\ cwd' = cwd
                /\ source_root' = source_root
           ELSE \E s1, s2 \in ExitStatuses :
                  LET wd == chdir(cwd, r.value)
                      ran == RunAll(configure_commands, <<s1, s2>>, wd)
                  IN  /\ cwd' = wd
                      /\ source_root' = r.value
                      /\ log' = log \o <<Entry("phase configure", cwd, TRUE),
                                         Entry("get_oommf_source_root", cwd, TRUE)>>
                                    \o ran
                      /\ IF AllOk(ran)
                         THEN pc' = After("configure") /\ error' = error
                         ELSE pc' = "failed"
                              /\ error' = Raise("ProcessError", <<ran[Len(ran)].op>>)
    /\ UNCHANGED <<fs, prefix, hooks, call, run_env, spack_env, tests>>

----------------------------------------------------------------------------
(* Oommf.build *)

build_commands == <<"pimake">>

\* What the build driver may do to the entry-point file of the tree it
\* builds in.
BuildEffects == {"keeps_entry", "removes_entry"}

ApplyEffect(f, wd, eff) ==
    IF eff = "removes_entry" /\ exists(f, join_path(wd, <<Marker>>))
    THEN remove(f, join_path(wd, <<Marker>>))
    ELSE f

build ==
    /\ pc = "build"
    /\ \E s \in ExitStatuses, eff \in BuildEffects :
          LET ran == RunAll(build_commands, <<s>>, cwd)
          IN  /\ fs' = ApplyEffect(fs, cwd, eff)
              /\ log' = log \o <<Entry("phase build", cwd, TRUE)>> \o ran
              /\ IF AllOk(ran)
                 THEN pc' = After("build") /\ error' = error
                 ELSE pc' = "failed"
                      /\ error' = Raise("ProcessError", <<ran[Len(ran)].op>>)
    /\ UNCHANGED <<cwd, source_root, prefix, hooks, call, run_env, spack_env, tests>>

----------------------------------------------------------------------------
(* Oommf.install *)

prefix_bin(pfx) == join_path(pfx, <<"bin">>)

install_files == <<"oommf.tcl">>

\* variant: the stage directory is copied, whatever configure changed into
install_source_stage(wd) == StageDir

\* the directory whose tree the install phase copies: "."
install_source(wd) == wd

install ==
    /\ pc = "install"
    /\ \E copied \in BOOLEAN :
          LET oommfdir == get_oommf_path(prefix)
              src == install_source(cwd)
              f1 == install_tree(fs, src, oommfdir)
              f2 == mkdirp(f1, prefix_bin(prefix))
              entry == join_path(oommfdir, <<install_files[1]>>)
              start == <<Entry("phase install", cwd, TRUE)>>
          IN  IF ~copied
              THEN /\ fs' = fs
                   /\ log' = log \o start \o <<Entry("install_tree", src, FALSE)>>
                   /\ error' = Raise("IOError", oommfdir)
                   /\ pc' = "failed"
              ELSE IF ~isfile(f2, entry)
              THEN /\ fs' = f2
                   /\ log' = log \o start \o <<Entry("install_tree", src, TRUE),
                                               Entry("install", entry, FALSE)>>
                   /\ error' = Raise("IOError", entry)
                   /\ pc' = "failed"
              ELSE /\ fs' = install_file(f2, entry, prefix_bin(prefix))
                   /\ log' = log \o start \o <<Entry("install_tree", src, TRUE),
                                               Entry("install", entry, TRUE)>>
                   /\ error' = error
                   /\ pc' = After("install")
    /\ UNCHANGED <<cwd, source_root, prefix, hooks, call, run_env, spack_env, tests>>

----------------------------------------------------------------------------
(* Sanity checks declared by the recipe, relative to the prefix *)

sanity_check_is_file == {<<"bin", "oommf.tcl">>}

sanity_check_is_dir ==
    {<<"usr", "bin", "oommf", "app">>,
     <<"usr", "bin", "oommf", "app", "oxs", "eamples">>}

\* Outcome of a callback: the remaining callbacks run whatever it is, and the
\* prefix is left as the install phase wrote it.
Outcome(ok) == IF ok THEN "passed" ELSE "failed"

sanity_check_prefix ==
    /\ pc = "sanity_check_prefix"
    /\ LET ok == /\ \A p \in sanity_check_is_file : isfile(fs, join_path(prefix, p))
                 /\ \A d \in sanity_check_is_dir : isdir(fs, join_path(prefix, d))
       IN  /\ hooks' = [hooks EXCEPT !["sanity_check_prefix"] = Outcome(ok)]
           /\ log' = log \o <<Entry("sanity_check_prefix", prefix, ok)>>
    /\ pc' = After("sanity_check_prefix")
    /\ UNCHANGED <<fs, cwd, source_root, prefix, error, call, run_env, spack_env, tests>>

----------------------------------------------------------------------------
(* The three tclsh invocations of the installed entry point *)

Invocations == <<"+version", "+platform", "stdprob3">>

oommf_tcl_path(pfx) == join_path(prefix_bin(pfx), <<"oommf.tcl">>)

oommf_examples(pfx) ==
    join_path(join_path(pfx, <<"usr", "bin">>), <<"oommf", "app", "oxs", "examples">>)

task(pfx) == join_path(oommf_examples(pfx), <<"stdprob3.mif">>)

\* The arguments the post-install check of an invocation passes after the
\* script path; "<task>" stands for the path task(pfx).
check_options(inv) ==
    CASE inv = "+version"  -> <<"+version">>
      [] inv = "+platform" -> <<"+platform">>
      [] inv = "stdprob3"  -> <<"boxsi", "+fg", "<task>", "-exitondone", "1">>

\* The arguments test() passes for an invocation after the script path.
test_options(inv) ==
    CASE inv = "+version"  -> <<"+version">>
      [] inv = "+platform" -> <<"+platform">>
      [] inv = "stdprob3"  -> <<"boxsi", "+fg", "<task>", "-exitondone", "1">>

\* the strings test() expects in the output of each invocation
Expected(inv) ==
    CASE inv = "+version"  -> {"oommf.tcl"}
      [] inv = "+platform" -> {"OOMMF threads", "OOMMF release",
                               "OOMMF API index", "Temp file directory"}
      [] inv = "stdprob3"  -> {"End \"stdprob3.mif\"",
                               "Mesh geometry: 32 x 32 x 32 = 32 768 cells"}

\* what tclsh may print: which of the strings of interest its output contains
Outputs(inv) == SUBSET Expected(inv)

EnvironPATH == <<"$PATH">>

NoCall ==
    [check |-> "none", script |-> <<>>, options |-> <<>>, task |-> <<>>,
     env |-> <<>>, status |-> 0, output |-> {}]

\* variant: a check that fails removes the installed entry point
check_install_cleanup(name, inv, test_env, status, out) ==
    /\ pc = name
    /\ call' = [check |-> name, script |-> oommf_tcl_path(prefix),
                options |-> check_options(inv),
                task |-> IF inv = "stdprob3" THEN task(prefix) ELSE <<>>,
                env |-> test_env, status |-> status, output |-> out]
    /\ hooks' = [hooks EXCEPT ![name] = Outcome(ProcessOk(status))]
    /\ log' = log \o <<Entry(name, prefix, ProcessOk(status))>>
    /\ pc' = After(name)
    /\ fs' = IF ProcessOk(status) THEN fs ELSE remove(fs, oommf_tcl_path(prefix))
    /\ UNCHANGED <<cwd, source_root, prefix, error, run_env, spack_env, tests>>

\* tclsh(oommf_tcl_path, ..., output=str.split, error=str.split, env=test_env)
check_install(name, inv, test_env, status, out) ==
    /\ pc = name
    /\ call' = [check |-> name, script |-> oommf_tcl_path(prefix),
                options |-> check_options(inv),
                task |-> IF inv = "stdprob3" THEN task(prefix) ELSE <<>>,
                env |-> test_env, status |-> status, output |-> out]
    /\ hooks' = [hooks EXCEPT ![name] = Outcome(ProcessOk(status))]
    /\ log' = log \o <<Entry(name, prefix, ProcessOk(status))>>
    /\ pc' = After(name)
    /\ UNCHANGED <<fs, cwd, source_root, prefix, error, run_env, spack_env, tests>>

check_install_version ==
    \E status \in ExitStatuses, out \in Outputs("+version") :
        check_install("check_install_version", "+version",
                      "OOMMF_ROOT" :> get_oommf_path(prefix), status, out)

check_install_platform ==
    \E status \in ExitStatuses, out \in Outputs("+platform") :
        check_install("check_install_platform", "+platform",
                      ("PATH" :> EnvironPATH) @@ ("OOMMF_ROOT" :> get_oommf_path(prefix)),
                      status, out)

check_install_stdprob3 ==
    \E status \in ExitStatuses, out \in Outputs("stdprob3") :
        check_install("check_install_stdprob3", "stdprob3",
                      ("PATH" :> EnvironPATH) @@ ("OOMMF_ROOT" :> get_oommf_path(prefix)),
                      status, out)

----------------------------------------------------------------------------
(* The install attempt's process ends after the last callback. What it    *)
(* leaves behind is the prefix on disk; environment queries and test runs *)
(* happen in later processes, each starting from that.                    *)

NoHooks == [c \in {callbacks[i] : i \in 1..Len(callbacks)} |-> "notrun"]

finish ==
    /\ pc = "done"
    /\ pc' = "installed"
    /\ cwd' = <<>>
    /\ source_root' = ""
    /\ log' = <<>>
    /\ hooks' = NoHooks
    /\ call' = NoCall
    /\ UNCHANGED <<fs, prefix, error, run_env, spack_env, tests>>

----------------------------------------------------------------------------
(* Oommf.setup_environment *)

env_set(env, name, value) ==
    [n \in DOMAIN env \cup {name} |-> IF n = name THEN value ELSE env[n]]

setup_environment_run(env, pfx) ==
    LET oommfdir == get_oommf_path(pfx)
    IN  env_set(env_set(env, "OOMMF_ROOT", oommfdir),
                "OOMMFTCL", join_path(oommfdir, <<"oommf.tcl">>))

setup_environment_build(env, pfx) == env

setup_environment ==
    /\ pc = "installed"
    /\ run_env' = setup_environment_run(run_env, prefix)
    /\ spack_env' = setup_environment_build(spack_env, prefix)
    /\ UNCHANGED <<fs, cwd, source_root, prefix, pc, error, log, hooks, call, tests>>

----------------------------------------------------------------------------
(* Oommf.test *)

NotRun == [result |-> "notrun", status |-> 0, output |-> {},
           script |-> <<>>, options |-> <<>>, task |-> <<>>]

\* run_test(exe, options, expected, status=[0], ...): passes when the exit
\* status is an accepted one and every expected string is in the output; a
\* failure is recorded and the caller goes on.
run_test(status, out, expected, accepted) ==
    Outcome(status \in accepted /\ expected \subseteq out)

test_record(inv, pfx, status, out) ==
    [result |-> run_test(status, out, Expected(inv), {0}),
     status |-> status, output |-> out,
     script |-> oommf_tcl_path(pfx), options |-> test_options(inv),
     task |-> IF inv = "stdprob3" THEN task(pfx) ELSE <<>>]

\* variant: the checks after a failed one are not run
test_results_fail_fast(pfx, statuses, outs) ==
    [i \in 1..Len(Invocations) |->
        IF \E j \in 1..(i - 1) :
              test_record(Invocations[j], pfx, statuses[j], outs[j]).result = "failed"
        THEN NotRun
        ELSE test_record(Invocations[i], pfx, statuses[i], outs[i])]

\* the three run_test calls of test(), in order
test_results(pfx, statuses, outs) ==
    [i \in 1..Len(Invocations) |-> test_record(Invocations[i], pfx, statuses[i], outs[i])]

test ==
    /\ pc = "installed"
    /\ tests = [i \in 1..Len(Invocations) |-> NotRun]
    /\ \E s1, s2, s3 \in ExitStatuses :
       \E o1 \in Outputs(Invocations[1]), o2 \in Outputs(Invocations[2]),
          o3 \in Outputs(Invocations[3]) :
          tests' = test_results(prefix, <<s1, s2, s3>>, <<o1, o2, o3>>)
    /\ UNCHANGED <<fs, cwd, source_root, prefix, pc, error, log, hooks, call, run_env,
                   spack_env>>

----------------------------------------------------------------------------
(* The install attempt *)

Init ==
    /\ prefix \in Prefixes
    /\ \E rootMarker \in BOOLEAN, nested \in NestedOptions, contents \in AppContents :
          fs = InitialFS(SourceTree(rootMarker, nested, contents), prefix)
    /\ cwd = StageDir
    /\ source_root = ""
    /\ pc = Steps[1]
    /\ error = NoError
    /\ log = <<>>
    /\ hooks = NoHooks
    /\ call = NoCall
    /\ run_env = <<>>
    /\ spack_env = <<>>
    /\ tests = [i \in 1..Len(Invocations) |-> NotRun]

Next ==
    \/ configure
    \/ build
    \/ install
    \/ sanity_check_prefix
    \/ check_install_version
    \/ check_install_platform
    \/ check_install_stdprob3
    \/ finish
    \/ setup_environment
    \/ test

Spec == Init /\ [][Next]_vars

----------------------------------------------------------------------------
(* Vocabulary of the properties *)

RootMarker == isfile(fs, join_path(StageDir, <<Marker>>))

NestedMarker == isfile(fs, join_path(StageDir, <<"oommf", Marker>>))

HasOp(op) == \E i \in 1..Len(log) : log[i].op = op

\* configure has run in this install attempt and build has not
ConfigureRan == Len(log) >= 1 /\ ~HasOp("phase build")

\* nothing has been written below the prefix
PrefixEmpty == \A p \in DOMAIN fs : IsPrefixOf(prefix, p) => p = prefix

Commands == {"pimake distclean", "pimake upgrade", "pimake"}

OommfDir == join_path(prefix, <<"usr", "bin", "oommf">>)

----------------------------------------------------------------------------
(* C1: whenever the marker file is in neither the current directory nor   *)
(* the oommf subdirectory (with or without such a subdirectory),          *)
(* configure ends the attempt with the layout-not-found error (ValueError *)
(* naming the directory searched), runs no command, and no later phase    *)
(* does any work.                                                         *)
C1_LayoutNotFound ==
    (ConfigureRan /\ ~RootMarker /\ ~NestedMarker) =>
        /\ pc = "failed"
        /\ error = Raise("ValueError", StageDir)
        /\ log = <<Entry("phase configure", StageDir, TRUE),
                   Entry("get_oommf_source_root", StageDir, FALSE)>>
        /\ PrefixEmpty
        /\ hooks = NoHooks

(* C2: get_oommf_source_root probes "." before "oommf": with the marker   *)
(* at the root it returns "." (whatever the nested directory holds, and   *)
(* also without one); with the marker only in the nested directory it     *)
(* returns "oommf"; configure changes into the directory returned.        *)
C2_FirstMatchingLocation ==
    ConfigureRan =>
        /\ RootMarker => (source_root = "." /\ cwd = StageDir)
        /\ (~RootMarker /\ NestedMarker) =>
              (source_root = "oommf" /\ cwd = join_path(StageDir, <<"oommf">>))

C2_Witness ==
    /\ ConfigureRan
    /\ RootMarker
    /\ NestedMarker
    /\ source_root = "."
    /\ pc = "build"

(* C3: a pimake command that exits non-zero is the last thing the install *)
(* attempt does: no later command or phase runs, nothing is written into  *)
(* the prefix, no callback runs, the attempt is in the failed state with  *)
(* ProcessError, and no step is enabled any more (no retry).              *)
C3_CommandFailureIsFatal ==
    \A i \in 1..Len(log) :
        (log[i].op \in Commands /\ ~log[i].ok) =>
            /\ i = Len(log)
            /\ pc = "failed"
            /\ error = Raise("ProcessError", <<log[i].op>>)
            /\ PrefixEmpty
            /\ hooks = NoHooks
            /\ ~ENABLED Next

C3_Witness ==
    /\ pc = "failed"
    /\ Len(log) = 4
    /\ log[3].op = "pimake distclean" /\ log[3].ok
    /\ log[4].op = "pimake upgrade" /\ ~log[4].ok

----------------------------------------------------------------------------
(* The verification scenario: which invocation a check makes, and the     *)
(* strings its output is required to contain.                             *)

InvocationOf(check) ==
    CASE check = "check_install_version"  -> "+version"
      [] check = "check_install_platform" -> "+platform"
      [] check = "check_install_stdprob3" -> "stdprob3"

RequiredStrings(inv) ==
    CASE inv = "+version"  -> {"oommf.tcl"}
      [] inv = "+platform" -> {"OOMMF threads", "OOMMF release",
                               "OOMMF API index", "Temp file directory"}
      [] inv = "stdprob3"  -> {"End \"stdprob3.mif\"",
                               "Mesh geometry: 32 x 32 x 32 = 32 768 cells"}

CheckSteps == {"check_install_version", "check_install_platform",
               "check_install_stdprob3"}

BinEntry == join_path(prefix, <<"bin", "oommf.tcl">>)

TreeEntry == join_path(OommfDir, <<"oommf.tcl">>)

ExamplesTask ==
    join_path(prefix, <<"usr", "bin", "oommf", "app", "oxs", "examples", "stdprob3.mif">>)

(* C4: a post-install check passes exactly when its tclsh invocation      *)
(* exited with status 0 and every required string of that check is in the *)
(* captured output; otherwise it yields a failure.                        *)
C4_ChecksRequireStrings ==
    call.check # "none" =>
        (hooks[call.check] = "passed"
            <=> (call.status = 0
                 /\ RequiredStrings(InvocationOf(call.check)) \subseteq call.output))

(* C5: test() runs all three invocations, the same ones the post-install  *)
(* checks make, and the result of each is decided by its own exit status  *)
(* and output alone: passed exactly when the status is 0 and every        *)
(* required string is present, whatever the other two checks did.         *)
C5_TestChecksIndependent ==
    (\E i \in 1..3 : tests[i].result # "notrun") =>
        \A i \in 1..3 :
            /\ tests[i].result \in {"passed", "failed"}
            /\ tests[i].result = "passed"
                  <=> (tests[i].status = 0
                       /\ RequiredStrings(Invocations[i]) \subseteq tests[i].output)
            /\ tests[i].script = BinEntry
            /\ tests[i].options = check_options(Invocations[i])
            /\ tests[i].task = (IF i = 3 THEN ExamplesTask ELSE <<>>)

C5_Witness ==
    /\ tests[1].result = "failed"
    /\ tests[2].result = "passed"
    /\ tests[3].result = "failed"
    /\ tests[3].status = 0

(* C6: a post-install check that fails changes nothing on disk and does   *)
(* not fail the install: the files the install phase produced stay, and   *)
(* the pipeline goes on to its next step without an error.                *)
C6_FailedCheckKeepsInstall ==
    [][(pc \in CheckSteps /\ hooks'[pc] = "failed") =>
          /\ fs' = fs
          /\ pc' = After(pc)
          /\ error' = NoError
          /\ isfile(fs', BinEntry)
          /\ isfile(fs', TreeEntry)]_vars

C6_Witness ==
    /\ pc = "done"
    /\ hooks["check_install_version"] = "failed"
    /\ hooks["check_install_stdprob3"] = "failed"
    /\ isfile(fs, BinEntry)
    /\ isfile(fs, TreeEntry)

(* C7: once the install phase has succeeded, every path of the source     *)
(* root configure changed into is below <prefix>/usr/bin/oommf with the   *)
(* same content, <prefix>/usr/bin/oommf/oommf.tcl is a file, and          *)
(* <prefix>/bin/oommf.tcl is a copy of it made after the tree copy; when  *)
(* the copied tree lacks oommf.tcl the install phase fails, and it fails  *)
(* on the entry point only then.                                          *)
C7_InstalledLayout ==
    /\ (\E j \in 1..Len(log) : log[j].op = "install" /\ log[j].ok) =>
          /\ source_root \in {".", "oommf"}
          /\ cwd = chdir(StageDir, source_root)
          /\ \A r \in TreeOf(fs, cwd) :
                /\ exists(fs, join_path(OommfDir, r))
                /\ fs[join_path(OommfDir, r)] = fs[join_path(cwd, r)]
          /\ isfile(fs, TreeEntry)
          /\ isfile(fs, BinEntry)
          /\ fs[BinEntry] = fs[TreeEntry]
          /\ fs[BinEntry] = fs[join_path(cwd, <<"oommf.tcl">>)]
          /\ \E i, j \in 1..Len(log) :
                i < j /\ log[i].op = "install_tree" /\ log[j].op = "install"
    /\ ((\E i \in 1..Len(log) : log[i].op = "install_tree" /\ log[i].ok)
        /\ ~isfile(fs, TreeEntry)) =>
          /\ pc = "failed"
          /\ error = Raise("IOError", TreeEntry)
          /\ ~exists(fs, BinEntry)
    /\ (\E j \in 1..Len(log) : log[j].op = "install" /\ ~log[j].ok) =>
          ~isfile(fs, join_path(cwd, <<"oommf.tcl">>))

C7_Witness ==
    /\ pc = "sanity_check_prefix"
    /\ source_root = "oommf"
    /\ isfile(fs, BinEntry)
    /\ fs[BinEntry] = <<"file", "stage", "oommf", "oommf.tcl">>

(* C8: the build environment is never modified; once setup_environment    *)
(* has run, the run-time environment holds exactly OOMMF_ROOT =           *)
(* <prefix>/usr/bin/oommf and OOMMFTCL = <prefix>/usr/bin/oommf/oommf.tcl;*)
(* every post-install check passes that same OOMMF_ROOT to tclsh.         *)
C8_EnvironmentExports ==
    /\ DOMAIN spack_env = {}
    /\ DOMAIN run_env # {} =>
          /\ DOMAIN run_env = {"OOMMF_ROOT", "OOMMFTCL"}
          /\ run_env["OOMMF_ROOT"] = OommfDir
          /\ run_env["OOMMFTCL"] = join_path(run_env["OOMMF_ROOT"], <<"oommf.tcl">>)
    /\ call.check # "none" =>
          /\ "OOMMF_ROOT" \in DOMAIN call.env
          /\ call.env["OOMMF_ROOT"] = OommfDir

C8_Witness ==
    /\ pc = "installed"
    /\ DOMAIN run_env = {"OOMMF_ROOT", "OOMMFTCL"}
    /\ prefix = <<"opt", "p2">>

(* C9: the operations of an install attempt happen in one fixed order,    *)
(* each at most once: detection, pimake distclean, pimake upgrade, the    *)
(* pimake build, the tree copy, the entry-point copy, the post-install    *)
(* callbacks. A phase starts only after everything before it succeeded,   *)
(* and the three pimake commands run in the resolved source root.         *)
StepOrder ==
    <<"phase configure", "get_oommf_source_root", "pimake distclean", "pimake upgrade",
      "phase build", "pimake",
      "phase install", "install_tree", "install",
      "sanity_check_prefix", "check_install_version", "check_install_platform",
      "check_install_stdprob3">>

C9_StrictPhaseOrder ==
    /\ Len(log) <= Len(StepOrder)
    /\ \A i \in 1..Len(log) :
          /\ log[i].op = StepOrder[i]
          /\ (i < Len(log) /\ log[i].op \notin DOMAIN NoHooks) => log[i].ok
          /\ log[i].op \in Commands =>
                /\ source_root \in {".", "oommf"}
                /\ log[i].dir = chdir(StageDir, source_root)

C9_Witness ==
    /\ pc = "done"
    /\ Len(log) = Len(StepOrder)
    /\ source_root = "oommf"
    /\ log[6].dir = <<"stage", "oommf">>

(* C10: after the install phase succeeded on a well-formed source tree    *)
(* (oommf.tcl, app/ and app/oxs/examples/stdprob3.mif under the source    *)
(* root), the sanity check passes, and the examples directory of the      *)
(* stdprob3 check is one of the sanity-checked directories.               *)
WellFormedSource ==
    /\ isfile(fs, join_path(cwd, <<"oommf.tcl">>))
    /\ isdir(fs, join_path(cwd, <<"app">>))
    /\ isfile(fs, join_path(cwd, <<"app", "oxs", "examples", "stdprob3.mif">>))

C10_SanityCheckPasses ==
    (hooks["sanity_check_prefix"] # "notrun" /\ WellFormedSource) =>
        /\ hooks["sanity_check_prefix"] = "passed"
        /\ \A p \in sanity_check_is_file : isfile(fs, join_path(prefix, p))
        /\ \A d \in sanity_check_is_dir : isdir(fs, join_path(prefix, d))
        /\ <<"usr", "bin", "oommf", "app", "oxs", "examples">> \in sanity_check_is_dir

====
